---------------------------- MODULE Spec2Model ----------------------------
(***************************************************************************)
(* Model of the AI pull-request review scripts:                            *)
(*   - the github-script variant, main({github, context, core}), which     *)
(*     lists the changed files through the GitHub API                      *)
(*     (src/scripts/ai_review.js, lines 1-213), variant "api";             *)
(*   - the stand-alone variant that builds the diff with git               *)
(*     (src/unnamed/part_000), variant "local".                            *)
(*                                                                         *)
(* Lines 215-377 of src/scripts/ai_review.js hold an earlier revision of   *)
(* the github-script variant without the draft check and without the       *)
(* per-file and file-count limits; it is not modelled separately.          *)
(*                                                                         *)
(* A JavaScript string is modelled as its run-length encoding: a sequence  *)
(* of runs [c |-> code unit, n |-> repetitions] in which adjacent runs     *)
(* have different code units.  The encoding is canonical, so equality of   *)
(* encodings is equality of strings, and length, slice, concatenation,     *)
(* trim and includes are computed on it exactly, with the real limits      *)
(* (15 files, 5000 and 12000 characters).                                  *)
(***************************************************************************)
EXTENDS Naturals, Sequences, FiniteSets

(***************************************************************************)
(* Bounds of the model.                                                    *)
(***************************************************************************)
\* changed-file listings of every mix of patch kinds up to this length
MaxMixedLen == 3
\* uniform listings hold up to maxFiles + MaxExtraFiles records
MaxExtraFiles == 2

(***************************************************************************)
(* Program constants.                                                      *)
(***************************************************************************)
maxFiles == 15
maxPatchCharsPerFile == 5000
maxTotalChars == 12000
MAX_CHARS == 12000
MaxCommentChars == 65000

(***************************************************************************)
(* Strings.                                                                *)
(***************************************************************************)
Run(c, n) == [c |-> c, n |-> n]

EmptyText == << >>

\* a + b
Concat(a, b) ==
  IF a = << >> THEN b
  ELSE IF b = << >> THEN a
  ELSE IF a[Len(a)].c = b[1].c
       THEN SubSeq(a, 1, Len(a) - 1)
              \o << Run(b[1].c, a[Len(a)].n + b[1].n) >>
              \o SubSeq(b, 2, Len(b))
       ELSE a \o b

RECURSIVE StrFrom(_, _)
StrFrom(chars, i) ==
  IF i > Len(chars) THEN EmptyText
  ELSE Concat(<< Run(chars[i], 1) >>, StrFrom(chars, i + 1))

\* the string whose code units are chars[1], chars[2], ...
Str(chars) == StrFrom(chars, 1)

\* n copies of the code unit c
Fill(c, n) == IF n = 0 THEN EmptyText ELSE << Run(c, n) >>

RECURSIVE LenRange(_, _, _)
\* the number of code units in runs lo..hi of t
LenRange(t, lo, hi) ==
  IF lo > hi THEN 0
  ELSE IF lo = hi THEN t[lo].n
  ELSE LET mid == (lo + hi) \div 2
       IN LenRange(t, lo, mid) + LenRange(t, mid + 1, hi)

\* t.length
TextLen(t) == LenRange(t, 1, Len(t))

RECURSIVE Fit(_, _, _, _)
\* how many of the runs lo..hi of t, taken from lo on, lie within k code units
Fit(t, k, lo, hi) ==
  IF lo > hi THEN 0
  ELSE IF lo = hi THEN (IF t[lo].n <= k THEN 1 ELSE 0)
  ELSE LET mid == (lo + hi) \div 2
           left == LenRange(t, lo, mid)
       IN IF left <= k
          THEN (mid - lo + 1) + Fit(t, k - left, mid + 1, hi)
          ELSE Fit(t, k, lo, mid)

\* t.slice(0, max)
Slice(t, max) ==
  LET j == Fit(t, max, 1, Len(t))
      rest == max - LenRange(t, 1, j)
  IN IF j = Len(t) THEN t
     ELSE IF rest = 0 THEN SubSeq(t, 1, j)
     ELSE SubSeq(t, 1, j) \o << Run(t[j + 1].c, rest) >>

\* t.slice(k)
Drop(t, k) ==
  LET j == Fit(t, k, 1, Len(t))
      rest == k - LenRange(t, 1, j)
  IN IF j = Len(t) THEN EmptyText
     ELSE IF rest = 0 THEN SubSeq(t, j + 1, Len(t))
     ELSE << Run(t[j + 1].c, t[j + 1].n - rest) >> \o SubSeq(t, j + 2, Len(t))

Whitespace == {" ", "\n", "\t"}

RECURSIVE TrimStart(_)
TrimStart(t) ==
  IF t = << >> THEN t
  ELSE IF t[1].c \in Whitespace THEN TrimStart(Tail(t))
  ELSE t

RECURSIVE TrimEnd(_)
TrimEnd(t) ==
  IF t = << >> THEN t
  ELSE IF t[Len(t)].c \in Whitespace THEN TrimEnd(SubSeq(t, 1, Len(t) - 1))
  ELSE t

\* t.trim()
Trim(t) == TrimEnd(TrimStart(t))

\* needle occurs in t with its first code unit inside run i of t
MatchAt(t, needle, i) ==
  LET m == Len(needle) IN
    /\ i + m - 1 <= Len(t)
    /\ t[i].c = needle[1].c
    /\ t[i + m - 1].c = needle[m].c
    /\ IF m = 1 THEN t[i].n >= needle[1].n
       ELSE /\ t[i].n >= needle[1].n
            /\ t[i + m - 1].n >= needle[m].n
            /\ \A j \in 2..(m - 1) : t[i + j - 1] = needle[j]

\* t.includes(needle)
Includes(t, needle) ==
  needle = << >> \/ \E i \in 1..Len(t) : MatchAt(t, needle, i)

(***************************************************************************)
(* String literals of the source.                                          *)
(***************************************************************************)
\* "\n\n... (diff truncado)"
DiffMarker ==
  Str(<< "\n", "\n", ".", ".", ".", " ", "(", "d", "i", "f", "f", " ",
         "t", "r", "u", "n", "c", "a", "d", "o", ")" >>)

\* "... (diff truncado)"
DiffMarkerNeedle ==
  Str(<< ".", ".", ".", " ", "(", "d", "i", "f", "f", " ",
         "t", "r", "u", "n", "c", "a", "d", "o", ")" >>)

\* "\n... (patch truncado)\n"
PatchMarker ==
  Str(<< "\n", ".", ".", ".", " ", "(", "p", "a", "t", "c", "h", " ",
         "t", "r", "u", "n", "c", "a", "d", "o", ")", "\n" >>)

\* "\n\n[Diff truncated]\n"
LocalMarker ==
  Str(<< "\n", "\n", "[", "D", "i", "f", "f", " ",
         "t", "r", "u", "n", "c", "a", "t", "e", "d", "]", "\n" >>)

FileLabel == Str(<< "F", "I", "L", "E", ":", " " >>)
StatusLabel == Str(<< "\n", "S", "T", "A", "T", "U", "S", ":", " " >>)
PatchLabel == Str(<< "\n", "P", "A", "T", "C", "H", ":", "\n" >>)
Newline == Str(<< "\n" >>)
Separator == Str(<< "\n", "-", "-", "-", "\n" >>)


(***************************************************************************)
(* Changed-file records returned by pulls.listFiles.                       *)
(***************************************************************************)
\* the values the listing gives the patch field of a record
PatchKinds == {"none", "empty", "small", "exact", "over", "marker"}

PatchOf(kind) ==
  CASE kind = "none" -> EmptyText
    [] kind = "empty" -> EmptyText
    [] kind = "small" -> Fill("x", 3)
    [] kind = "exact" -> Fill("x", maxPatchCharsPerFile)
    [] kind = "over" -> Fill("x", maxPatchCharsPerFile + 1)
    [] kind = "marker" -> Concat(Fill("x", 2), DiffMarkerNeedle)

\* the i-th record of a listing; its filename is i times the letter n
ChangedFile(i, kind) ==
  [filename |-> Fill("n", i),
   status |-> Str(<< "m", "o", "d", "i", "f", "i", "e", "d" >>),
   hasPatch |-> kind # "none",
   patch |-> PatchOf(kind)]

Listing(kinds) == [i \in 1..Len(kinds) |-> ChangedFile(i, kinds[i])]

MixedKinds == UNION {[1..n -> PatchKinds] : n \in 0..MaxMixedLen}

\* n records of one kind, the first possibly without a patch
UniformKinds ==
  {[i \in 1..n |-> IF i = gap THEN "none" ELSE k] :
     n \in 0..(maxFiles + MaxExtraFiles), k \in PatchKinds, gap \in 0..1}

\* the listings pulls.listFiles may answer with
FileLists == {Listing(kinds) : kinds \in MixedKinds \cup UniformKinds}

(***************************************************************************)
(* getPullRequestDiff: selection, rendering, joining and the final cut.    *)
(***************************************************************************)
\* (f) => f.patch : undefined and "" are both falsy
HasPatch(f) == f.hasPatch /\ f.patch # EmptyText

RECURSIVE FilterFrom(_, _)
FilterFrom(fs, i) ==
  IF i > Len(fs) THEN << >>
  ELSE IF HasPatch(fs[i]) THEN << fs[i] >> \o FilterFrom(fs, i + 1)
  ELSE FilterFrom(fs, i + 1)

\* files.filter((f) => f.patch)
WithPatch(fs) == FilterFrom(fs, 1)

\* Selected without the slice(0, maxFiles)
SelectedUncapped(fs) == WithPatch(fs)

\* files.filter((f) => f.patch).slice(0, maxFiles)
Selected(fs) ==
  LET w == WithPatch(fs) IN
    IF Len(w) <= maxFiles THEN w ELSE SubSeq(w, 1, maxFiles)

\* RenderPatch with >= in place of >
RenderPatchAtLimit(p) ==
  IF TextLen(p) >= maxPatchCharsPerFile
  THEN Concat(Slice(p, maxPatchCharsPerFile), PatchMarker)
  ELSE p

\* the patch text of one rendered block
RenderPatch(p) ==
  IF TextLen(p) > maxPatchCharsPerFile
  THEN Concat(Slice(p, maxPatchCharsPerFile), PatchMarker)
  ELSE p

\* `FILE: ${f.filename}\nSTATUS: ${f.status}\nPATCH:\n${patch}\n`
RenderBlock(f) ==
  Concat(FileLabel,
    Concat(f.filename,
      Concat(StatusLabel,
        Concat(f.status,
          Concat(PatchLabel,
            Concat(RenderPatch(f.patch), Newline))))))

RECURSIVE JoinFrom(_, _, _)
JoinFrom(parts, sep, i) ==
  IF i > Len(parts) THEN EmptyText
  ELSE IF i = Len(parts) THEN parts[i]
  ELSE Concat(parts[i], Concat(sep, JoinFrom(parts, sep, i + 1)))

\* parts.join(sep)
Join(parts, sep) == JoinFrom(parts, sep, 1)

\* selected.map(...).join("\n---\n")
JoinedPatches(sel) ==
  Join([i \in 1..Len(sel) |-> RenderBlock(sel[i])], Separator)

\* truncate(text, max)
truncate(text, max) ==
  IF text = EmptyText THEN EmptyText
  ELSE IF TextLen(text) <= max THEN text
  ELSE Concat(Slice(text, max), DiffMarker)

\* a value that is a string or null
Null == [isNull |-> TRUE, text |-> EmptyText]
Some(t) == [isNull |-> FALSE, text |-> t]

\* !v for a string or null
Falsy(v) == v.isNull \/ v.text = EmptyText

\* what getPullRequestDiff returns once the listing has arrived
AssembleDiff(fs) ==
  LET sel == Selected(fs) IN
    IF Len(sel) = 0 THEN Null
    ELSE IF Trim(JoinedPatches(sel)) = EmptyText THEN Null
    ELSE Some(truncate(JoinedPatches(sel), maxTotalChars))

\* the cut of the git diff in the stand-alone script
LocalTruncate(t) ==
  IF TextLen(t) > MAX_CHARS THEN Concat(Slice(t, MAX_CHARS), LocalMarker) ELSE t

(***************************************************************************)
(* The run: configuration, program position, values, outcome.              *)
(***************************************************************************)
VARIABLES
  variant,       \* "api": main({github, context, core}); "local": the stand-alone main()
  env,           \* the names of process.env that hold a non-empty value
  ctx,           \* api: the context object; local: the event document
  pc,            \* where the run is suspended
  files,         \* api: the listing pulls.listFiles answered with
  selected,      \* api: const selected
  rendered,      \* api: const patch of each map callback, with its source patch
  patches,       \* api: const patches (the joined blocks, before truncate)
  rawDiff,       \* local: the output of git diff, before the cut
  diffText,      \* the diff text handed on to the completion call, or null
  response,      \* the completion API's answer
  comment,       \* the comment body handed to the comment API
  outcome,       \* "running", "success" (exit 0, no failing status) or "failed"
  errorMessage,  \* the message of core.setFailed / console.error
  calls,         \* requests and subprocesses issued so far, per step
  failures       \* the external steps that failed

vars ==
  << variant, env, ctx, pc, files, selected, rendered, patches, rawDiff,
     diffText, response, comment, outcome, errorMessage, calls, failures >>

Steps == {"listFiles", "gitFetch", "gitDiff", "gitFallback", "completion", "comment"}

EnvNames ==
  {"OPENAI_API_KEY", "GITHUB_TOKEN", "GITHUB_REPOSITORY", "GITHUB_EVENT_PATH"}

PullRequests == {"none", "open", "draft"}

\* context objects main may be called with
ApiContexts ==
  {c \in [defined : BOOLEAN, hasRepo : BOOLEAN, owner : BOOLEAN,
          name : BOOLEAN, pr : PullRequests] :
     /\ ~c.defined => (~c.hasRepo /\ c.pr = "none")
     /\ ~c.hasRepo => (~c.owner /\ ~c.name)}

\* event documents GITHUB_EVENT_PATH may name; defined = readable JSON
LocalEvents ==
  {c \in [defined : BOOLEAN, hasRepo : {TRUE}, owner : {TRUE},
          name : {TRUE}, pr : PullRequests] :
     ~c.defined => c.pr = "none"}

NoError == [kind |-> "none", item |-> "", status |-> 0, body |-> EmptyText]
Error(kind, item) == [kind |-> kind, item |-> item, status |-> 0, body |-> EmptyText]

\* `OpenAI API error (${status}): ${body}`, `GitHub comment error (${status}): ${body}`
HttpError(kind, resp) ==
  [kind |-> kind, item |-> "", status |-> resp.status, body |-> resp.body]

NoResponse == [status |-> 0, body |-> EmptyText]
NoComment == [posted |-> FALSE, review |-> EmptyText, truncatedNote |-> FALSE]

\* answers of the completion endpoint: status and body (on success the
\* generated text found in the JSON body)
CompletionResponses ==
  {[status |-> 200, body |-> Fill("k", 4)],
   [status |-> 200, body |-> Fill(" ", 2)],
   [status |-> 200, body |-> EmptyText],
   [status |-> 200, body |-> Fill("k", MaxCommentChars)],
   [status |-> 500, body |-> Fill("e", 3)],
   [status |-> 429, body |-> EmptyText]}

\* answers of the issue-comments endpoint
CommentResponses ==
  {[status |-> 201, body |-> EmptyText], [status |-> 403, body |-> Fill("e", 3)]}

\* outputs of git diff
DiffTexts ==
  {EmptyText, Fill("x", 3), Fill("x", MAX_CHARS), Fill("x", MAX_CHARS + 1)}

\* ResponseOk with the status never looked at
ResponseAlwaysOk(resp) == TRUE

\* response.ok
ResponseOk(resp) == resp.status \in 200..299

\* ensureRepoContext(context) does not throw
RepoContextOk(c) == c.defined /\ c.hasRepo /\ c.owner /\ c.name

\* MainSkips testing for the empty string only
MainSkipsEmptyOnly(d) == ~d.isNull /\ d.text = EmptyText

\* if (!diffText) in main
MainSkips(d) == Falsy(d)

\* diffText.includes("... (diff truncado)")
TruncatedNote(d) == Includes(d, DiffMarkerNeedle)

\* "Nao foi possivel gerar a revisao." (the fixed fallback text)
FallbackReview == Str(<< "N", "/", "A" >>)

\* data?.choices?.[0]?.message?.content?.trim() || fallback
ApiReview(resp) ==
  IF Trim(resp.body) = EmptyText THEN FallbackReview ELSE Trim(resp.body)

\* "## <robot emoji, two code units> AI Code Review\n\n"
LocalHeader ==
  Str(<< "#", "#", " ", "uD83E", "uDD16", " ", "A", "I", " ", "C", "o", "d", "e",
         " ", "R", "e", "v", "i", "e", "w", "\n", "\n" >>)

\* the text || ... || JSON.stringify(data, null, 2) chain, then the slice
LocalReview(resp) ==
  LET text == IF resp.body = EmptyText THEN Str(<< "{", "}" >>) ELSE resp.body
  IN Slice(Concat(LocalHeader, text), MaxCommentChars)

Init ==
  /\ variant \in {"api", "local"}
  /\ IF variant = "api"
     THEN env \in SUBSET {"OPENAI_API_KEY"} /\ ctx \in ApiContexts
     ELSE env \in SUBSET EnvNames /\ ctx \in LocalEvents
  /\ pc = "start"
  /\ files = << >>
  /\ selected = << >>
  /\ rendered = << >>
  /\ patches = EmptyText
  /\ rawDiff = EmptyText
  /\ diffText = Null
  /\ response = NoResponse
  /\ comment = NoComment
  /\ outcome = "running"
  /\ errorMessage = NoError
  /\ calls = [s \in Steps |-> 0]
  /\ failures = {}

\* the run ends: thrown error reaches core.setFailed / main().catch
Fail(msg) ==
  /\ pc' = "done"
  /\ outcome' = "failed"
  /\ errorMessage' = msg

\* the run ends without a failing status
Finish ==
  /\ pc' = "done"
  /\ outcome' = "success"
  /\ errorMessage' = NoError

Issue(step, next) ==
  /\ pc' = next
  /\ calls' = [calls EXCEPT ![step] = @ + 1]
  /\ UNCHANGED << outcome, errorMessage >>

(***************************************************************************)
(* main({github, context, core}) of the github-script variant.             *)
(***************************************************************************)
\* main up to the await of github.paginate in getPullRequestDiff
ApiMain ==
  /\ pc = "start"
  /\ variant = "api"
  /\ IF ~RepoContextOk(ctx)
     THEN Fail(Error("ContextRepo", "context.repo")) /\ UNCHANGED calls
     ELSE IF ctx.pr = "none" THEN Finish /\ UNCHANGED calls
     ELSE IF ctx.pr = "draft" THEN Finish /\ UNCHANGED calls
     ELSE Issue("listFiles", "listing")
  /\ UNCHANGED << variant, env, ctx, files, selected, rendered, patches,
                  rawDiff, diffText, response, comment, failures >>

\* github.paginate rejects
ListFilesRejected ==
  /\ pc = "listing"
  /\ failures' = failures \cup {"listFiles"}
  /\ Fail(Error("Rejected", "listFiles"))
  /\ UNCHANGED << variant, env, ctx, files, selected, rendered, patches,
                  rawDiff, diffText, response, comment, calls >>

\* github.paginate resolves: the rest of getPullRequestDiff, then main up
\* to the await of fetch in callOpenAI
ListFilesResolved ==
  /\ pc = "listing"
  /\ \E fs \in FileLists :
       /\ files' = fs
       /\ selected' = Selected(fs)
       /\ rendered' = [i \in 1..Len(Selected(fs)) |->
                         [patch |-> Selected(fs)[i].patch,
                          body |-> RenderPatch(Selected(fs)[i].patch)]]
       /\ patches' = JoinedPatches(Selected(fs))
       /\ diffText' = AssembleDiff(fs)
       /\ IF MainSkips(AssembleDiff(fs)) THEN Finish /\ UNCHANGED calls
          ELSE IF "OPENAI_API_KEY" \notin env
               THEN Fail(Error("MissingEnv", "OPENAI_API_KEY")) /\ UNCHANGED calls
               ELSE Issue("completion", "completion")
  /\ UNCHANGED << variant, env, ctx, rawDiff, response, comment, failures >>

(***************************************************************************)
(* main() of the stand-alone variant.                                      *)
(***************************************************************************)
\* main up to the git fetch subprocess
LocalMain ==
  /\ pc = "start"
  /\ variant = "local"
  /\ IF "OPENAI_API_KEY" \notin env
     THEN Fail(Error("MissingEnv", "OPENAI_API_KEY")) /\ UNCHANGED calls
     ELSE IF "GITHUB_TOKEN" \notin env
     THEN Fail(Error("MissingEnv", "GITHUB_TOKEN")) /\ UNCHANGED calls
     ELSE IF "GITHUB_REPOSITORY" \notin env
     THEN Fail(Error("MissingEnv", "GITHUB_REPOSITORY")) /\ UNCHANGED calls
     ELSE IF "GITHUB_EVENT_PATH" \notin env
     THEN Fail(Error("MissingEnv", "GITHUB_EVENT_PATH")) /\ UNCHANGED calls
     ELSE IF ~ctx.defined
     THEN Fail(Error("EventUnreadable", "GITHUB_EVENT_PATH")) /\ UNCHANGED calls
     ELSE IF ctx.pr = "none"
     THEN Fail(Error("NoPullRequest", "pull_request")) /\ UNCHANGED calls
     ELSE Issue("gitFetch", "gitFetch")
  /\ UNCHANGED << variant, env, ctx, files, selected, rendered, patches,
                  rawDiff, diffText, response, comment, failures >>

\* git fetch exits; try { ... } catch {} ; then the primary git diff starts
GitFetchExit ==
  /\ pc = "gitFetch"
  /\ \E ok \in BOOLEAN :
       failures' = IF ok THEN failures ELSE failures \cup {"gitFetch"}
  /\ Issue("gitDiff", "gitDiff")
  /\ UNCHANGED << variant, env, ctx, files, selected, rendered, patches,
                  rawDiff, diffText, response, comment >>

\* the diff text is cut and callOpenAI issues its request
LocalDeliver(t) ==
  /\ rawDiff' = t
  /\ diffText' = Some(LocalTruncate(t))
  /\ Issue("completion", "completion")

\* the primary git diff exits; on failure the fallback diff starts
GitDiffExit ==
  /\ pc = "gitDiff"
  /\ \E ok \in BOOLEAN :
       IF ok
       THEN /\ \E t \in DiffTexts : LocalDeliver(t)
            /\ UNCHANGED failures
       ELSE /\ failures' = failures \cup {"gitDiff"}
            /\ Issue("gitFallback", "gitFallback")
            /\ UNCHANGED << rawDiff, diffText >>
  /\ UNCHANGED << variant, env, ctx, files, selected, rendered, patches,
                  response, comment >>

\* GitFallbackExit with the failure of the fallback diff caught as well
GitFallbackExitSwallowed ==
  /\ pc = "gitFallback"
  /\ \E ok \in BOOLEAN :
       IF ok
       THEN /\ \E t \in DiffTexts : LocalDeliver(t)
            /\ UNCHANGED failures
       ELSE /\ failures' = failures \cup {"gitFallback"}
            /\ LocalDeliver(EmptyText)
  /\ UNCHANGED << variant, env, ctx, files, selected, rendered, patches,
                  response, comment >>

\* the fallback git diff exits; its failure is not caught
GitFallbackExit ==
  /\ pc = "gitFallback"
  /\ \E ok \in BOOLEAN :
       IF ok
       THEN /\ \E t \in DiffTexts : LocalDeliver(t)
            /\ UNCHANGED failures
       ELSE /\ failures' = failures \cup {"gitFallback"}
            /\ Fail(Error("Rejected", "gitFallback"))
            /\ UNCHANGED << rawDiff, diffText, calls >>
  /\ UNCHANGED << variant, env, ctx, files, selected, rendered, patches,
                  response, comment >>

(***************************************************************************)
(* callOpenAI and the comment call, both variants.                         *)
(***************************************************************************)
\* fetch of the completion endpoint rejects
CompletionRejected ==
  /\ pc = "completion"
  /\ failures' = failures \cup {"completion"}
  /\ Fail(Error("Rejected", "completion"))
  /\ UNCHANGED << variant, env, ctx, files, selected, rendered, patches,
                  rawDiff, diffText, response, comment, calls >>

\* the comment body main builds from the review
CommentBody(resp) ==
  IF variant = "api"
  THEN [posted |-> TRUE, review |-> ApiReview(resp),
        truncatedNote |-> TruncatedNote(diffText.text)]
  ELSE [posted |-> TRUE, review |-> LocalReview(resp), truncatedNote |-> FALSE]

\* the completion endpoint answers: the rest of callOpenAI, then main up to
\* the request of the comment call
CompletionResponded ==
  /\ pc = "completion"
  /\ \E resp \in CompletionResponses :
       /\ response' = resp
       /\ failures' = IF resp.status \in 200..299 THEN failures
                      ELSE failures \cup {"completion"}
       /\ IF ~ResponseOk(resp)
          THEN /\ Fail(HttpError("OpenAIError", resp))
               /\ UNCHANGED << comment, calls >>
          ELSE /\ comment' = CommentBody(resp)
               /\ Issue("comment", "commenting")
  /\ UNCHANGED << variant, env, ctx, files, selected, rendered, patches,
                  rawDiff, diffText >>

\* the comment request rejects (createComment throws, fetch throws)
CommentRejected ==
  /\ pc = "commenting"
  /\ failures' = failures \cup {"comment"}
  /\ Fail(Error("Rejected", "comment"))
  /\ UNCHANGED << variant, env, ctx, files, selected, rendered, patches,
                  rawDiff, diffText, response, comment, calls >>

\* the comment request is answered; createComment resolves on success only,
\* postPRComment checks res.ok itself
CommentResponded ==
  /\ pc = "commenting"
  /\ \E r \in CommentResponses :
       /\ variant = "api" => r.status \in 200..299
       /\ IF variant = "local" /\ ~ResponseOk(r)
          THEN /\ failures' = failures \cup {"comment"}
               /\ Fail(HttpError("GitHubCommentError", r))
          ELSE /\ UNCHANGED failures
               /\ Finish
  /\ UNCHANGED << variant, env, ctx, files, selected, rendered, patches,
                  rawDiff, diffText, response, comment, calls >>

Next ==
  \/ ApiMain
  \/ ListFilesRejected
  \/ ListFilesResolved
  \/ LocalMain
  \/ GitFetchExit
  \/ GitDiffExit
  \/ GitFallbackExit
  \/ CompletionRejected
  \/ CompletionResponded
  \/ CommentRejected
  \/ CommentResponded

Spec == Init /\ [][Next]_vars

(***************************************************************************)
(* Vocabulary of the properties.                                           *)
(***************************************************************************)
\* the listing has arrived and getPullRequestDiff has run to its return
Listed ==
  /\ variant = "api"
  /\ calls["listFiles"] = 1
  /\ pc # "listing"
  /\ "listFiles" \notin failures

\* the positions of the records of fs that carry patch text
PatchBearing(fs) ==
  {i \in DOMAIN fs : fs[i].hasPatch /\ fs[i].patch # << >>}

Min(a, b) == IF a <= b THEN a ELSE b

\* the members of the set S of numbers in increasing order
Ascending(S) ==
  [k \in 1..Cardinality(S) |->
     CHOOSE i \in S : Cardinality({j \in S : j < i}) = k - 1]

\* the runs of t at which a "FILE: " header starts
Headers(t) == {i \in 1..Len(t) : MatchAt(t, FileLabel, i)}

\* the filenames of the blocks of t in order, each as its number of letters
BlockNames(t) ==
  LET at == Ascending(Headers(t))
  IN [k \in 1..Len(at) |->
        IF at[k] + Len(FileLabel) <= Len(t) /\ t[at[k] + Len(FileLabel)].c = "n"
        THEN t[at[k] + Len(FileLabel)].n ELSE 0]

\* t ends with s
EndsWith(t, s) ==
  /\ TextLen(t) >= TextLen(s)
  /\ Drop(t, TextLen(t) - TextLen(s)) = s

\* the total of the requests and subprocesses issued
IssuedCalls ==
  calls["listFiles"] + calls["gitFetch"] + calls["gitDiff"]
    + calls["gitFallback"] + calls["completion"] + calls["comment"]

\* a cut was applied while the payload was assembled
TruncationApplied ==
  IF variant = "api"
  THEN \/ \E i \in DOMAIN selected : TextLen(selected[i].patch) > 5000
       \/ TextLen(patches) > 12000
  ELSE TextLen(rawDiff) > 12000

\* a required configuration value is missing
MissingConfig ==
  IF variant = "api"
  THEN "OPENAI_API_KEY" \notin env \/ ~(ctx.defined /\ ctx.hasRepo /\ ctx.owner /\ ctx.name)
  ELSE env # EnvNames

\* the run meets one of the conditions under which nothing is to be reviewed
NoOpCondition ==
  \/ ctx.pr \in {"none", "draft"}
  \/ Listed /\ PatchBearing(files) = {}
  \/ variant = "local" /\ calls["completion"] > 0 /\ rawDiff = << >>

(***************************************************************************)
(* C1: the text handed to the completion API is never longer than          *)
(* maxTotalChars (12000), the truncation marker included.                  *)
(***************************************************************************)
C1_PayloadWithinCap ==
  calls["completion"] > 0 => TextLen(diffText.text) <= 12000

(***************************************************************************)
(* C2 as stated: the payload returned by the assembler holds exactly       *)
(* min(N, maxFiles) file blocks, N the number of patch-bearing records.    *)
(***************************************************************************)
C2_ReturnedPayloadBlockCount ==
  (Listed /\ ~diffText.isNull) =>
    Cardinality(Headers(diffText.text))
      = Min(Cardinality(PatchBearing(files)), 15)

(***************************************************************************)
(* C2 amended: the joined text, before the final total-size cut, holds     *)
(* exactly min(N, maxFiles) file blocks, and they are the first            *)
(* min(N, maxFiles) patch-bearing records of the listing in source order.  *)
(***************************************************************************)
C2_BlocksBeforeCut ==
  Listed =>
    LET first == Ascending(PatchBearing(files))
        count == Min(Len(first), 15)
    IN /\ Len(selected) = count
       /\ Cardinality(Headers(patches)) = count
       /\ BlockNames(patches) = SubSeq(first, 1, count)

C2_Witness ==
  /\ Listed
  /\ Cardinality(PatchBearing(files)) > 15
  /\ Len(files) > Cardinality(PatchBearing(files))
  /\ ~diffText.isNull

(***************************************************************************)
(* C3: a selected patch gets the per-file marker iff it is longer than     *)
(* maxPatchCharsPerFile; then its rendered body is its first               *)
(* maxPatchCharsPerFile characters followed by the marker; a patch of      *)
(* exactly that length or shorter is rendered unchanged.                   *)
(***************************************************************************)
C3_PerFileTruncation ==
  Listed =>
    /\ Len(rendered) = Len(selected)
    /\ \A i \in DOMAIN rendered :
         LET p == selected[i].patch
             b == rendered[i].body
         IN /\ rendered[i].patch = p
            /\ TextLen(p) > 5000 =>
                 /\ TextLen(b) = 5000 + TextLen(PatchMarker)
                 /\ Slice(b, 5000) = Slice(p, 5000)
                 /\ Drop(b, 5000) = PatchMarker
            /\ TextLen(p) <= 5000 => b = p
            /\ Includes(patches, Concat(PatchLabel, Concat(b, Newline)))

C3_Witness ==
  /\ Listed
  /\ \E i \in DOMAIN rendered : TextLen(rendered[i].patch) = 5001
  /\ \E i \in DOMAIN rendered : TextLen(rendered[i].patch) = 5000

(***************************************************************************)
(* C4: when more than maxFiles records carry a patch, the joined text      *)
(* ends with a trailing line after the last file block that notes the      *)
(* omitted count.                                                          *)
(***************************************************************************)
C4_OmittedNotePresent ==
  (Listed /\ Cardinality(PatchBearing(files)) > 15) =>
    ~EndsWith(patches,
              Concat(PatchLabel, Concat(rendered[Len(rendered)].body, Newline)))

C6_CompletionFailureAborts ==
  /\ (response.status # 0 /\ response.status \notin 200..299) =>
       /\ pc = "done"
       /\ outcome = "failed"
       /\ errorMessage.kind = "OpenAIError"
       /\ errorMessage.status = response.status
       /\ errorMessage.body = response.body
       /\ calls["completion"] = 1
       /\ calls["comment"] = 0
  /\ calls["comment"] > 0 =>
       /\ response.status \in 200..299
       /\ calls["completion"] = 1
       /\ calls["comment"] = 1

C6_Witness ==
  /\ response.status = 500
  /\ response.body # << >>
  /\ outcome = "failed"

(***************************************************************************)
(* C7: when a required configuration value is missing the run fails,       *)
(* naming the missing item, before any request or subprocess is issued.    *)
(***************************************************************************)
C7_ConfigCheckedFirst ==
  MissingConfig =>
    /\ IssuedCalls = 0
    /\ pc = "done" =>
         /\ outcome = "failed"
         /\ errorMessage.kind \in {"MissingEnv", "ContextRepo"}

(***************************************************************************)
(* C8: a run that meets a no-op condition (no pull request, draft pull     *)
(* request, nothing to review) ends as a success with no completion call   *)
(* and no comment call.                                                    *)
(***************************************************************************)
C8_NoOpIsSuccess ==
  (~MissingConfig /\ ctx.defined /\ NoOpCondition) =>
    /\ calls["completion"] = 0
    /\ calls["comment"] = 0
    /\ pc = "done" => outcome = "success"

(***************************************************************************)
(* C9 as stated: in the local-diff run only the failure of the primary     *)
(* diff is suppressed; a failure of the base-branch fetch, the fallback    *)
(* diff, the completion call or the comment call ends the run as failed.   *)
(***************************************************************************)
C9_OnlyPrimaryDiffSuppressed ==
  (variant = "local" /\ pc = "done"
     /\ failures \cap {"gitFetch", "gitFallback", "completion", "comment"} # {}) =>
    outcome = "failed"

(***************************************************************************)
(* C9 amended: in the local-diff run the failures suppressed are those of  *)
(* the base-branch fetch and of the primary diff; the latter triggers      *)
(* exactly one attempt of the fallback diff; a failure of the fallback     *)
(* diff, the completion call or the comment call ends the run as failed,   *)
(* and a run that issued a subprocess fails for no other reason.           *)
(***************************************************************************)
C9_FetchAndPrimaryDiffSuppressed ==
  variant = "local" =>
    /\ calls["gitFallback"] <= 1
    /\ calls["gitFallback"] = 1 <=> "gitDiff" \in failures
    /\ "gitFallback" \in failures => (pc = "done" /\ calls["completion"] = 0)
    /\ pc = "done" =>
         /\ failures \cap {"gitFallback", "completion", "comment"} # {}
              => outcome = "failed"
         /\ (outcome = "failed" /\ IssuedCalls > 0)
              => failures \cap {"gitFallback", "completion", "comment"} # {}

C9_Witness ==
  /\ variant = "local"
  /\ pc = "done"
  /\ outcome = "success"
  /\ {"gitFetch", "gitDiff"} \subseteq failures
  /\ calls["gitFallback"] = 1

(***************************************************************************)
(* C10: the comment carries the truncation warning iff a cut (per file or  *)
(* total) was applied while the payload was assembled.                     *)
(***************************************************************************)
C10_WarningIffTruncated ==
  comment.posted => (comment.truncatedNote <=> TruncationApplied)

=============================================================================
